---- MODULE Spec2Model ----
(***************************************************************************)
(* Model of src/main.ts: the fetch handler of the chat-completions proxy.  *)
(*                                                                         *)
(* A request passes the guard clauses, a task run is created, a            *)
(* ReadableStream is constructed whose start() writes the header chunk,    *)
(* subscribes to the run's events and translates each event into writes    *)
(* on the stream controller.                                               *)
(*                                                                         *)
(* Conventions.  An optional JavaScript value is a sequence: None is the   *)
(* absent value, Some(x) the present one.  A text is a sequence of string  *)
(* pieces (single characters for backend messages).  A written item is     *)
(* the chunk object that "data: ${JSON.stringify(chunk)}\n\n" frames, or   *)
(* the literal "data: [DONE]\n\n" line; the fields object and created of   *)
(* a chunk are left out (no operation reads them).                         *)
(*                                                                         *)
(* pending are the requests still to arrive and quota is the number of     *)
(* events the backend will still deliver.  closeCalls and failedWrites     *)
(* count the calls of controller.close() and the calls of                  *)
(* controller.enqueue() that threw.                                        *)
(*                                                                         *)
(* Spec is the program with a sink that accepts every write until the      *)
(* program closes it (no client disconnect), serving one request.          *)
(* SpecCancel adds the client cancelling the stream.  SpecTwo serves two   *)
(* requests concurrently.                                                  *)
(***************************************************************************)
EXTENDS Integers, Sequences, FiniteSets, TLC

VARIABLES pending, quota, request, pc, body, requestId, response, sink, written, consumed,
          closeCalls, failedWrites

vars == <<pending, quota, request, pc, body, requestId, response, sink, written, consumed,
          closeCalls, failedWrites>>

(* ------------------------------ bounds --------------------------------- *)

MaxEvents == 2

MaxEventsTwo == 1

MaxSources == 2

(* --------------------------- basic values ------------------------------ *)

None == <<>>

Some(x) == <<x>>

Requests == {"r1", "r2"}

(* The request of the specifications that handle one invocation of fetch. *)
SingleRequest == {"r1"}

(* Values Date.now() may return when a request arrives. *)
Timestamps == {1700, 1701}

ProgressTypes == {"task_run.progress_msg.plan", "task_run.progress_msg.search",
                  "task_run.progress_msg.tool_call", "task_run.progress_msg.exec_status"}

(* JavaScript truthiness of an optional string: absent and "" are falsy. *)
Truthy(opt) == opt # None /\ opt[1] # <<>>

(* x || dflt for an optional string *)
OrElse(opt, dflt) == IF Truthy(opt) THEN opt[1] ELSE dflt

(* n || 0 for an optional number *)
NumOrZero(opt) == IF opt # None /\ opt[1] # 0 THEN opt[1] ELSE 0

(* ------------------------------ requests ------------------------------- *)

Req(method, path, auth, jsonOk, stream, model, usage) ==
    [method |-> method, pathname |-> path, authorization |-> auth, jsonOk |-> jsonOk,
     stream |-> stream, model |-> model, include_usage |-> usage]

NoRequest == Req("", "", None, FALSE, FALSE, "", FALSE)

NoBody == [model |-> "", include_usage |-> FALSE]

RequestInputs ==
    { Req("POST", "/chat/completions", Some(<<"Bearer ", "k1">>), TRUE, TRUE, "base", u) :
          u \in BOOLEAN }
    \cup { Req("GET", "/chat/completions", Some(<<"Bearer ", "k1">>), TRUE, TRUE, "base", FALSE),
           Req("POST", "/", Some(<<"Bearer ", "k1">>), TRUE, TRUE, "base", FALSE),
           Req("POST", "/chat/completions", None, TRUE, TRUE, "base", FALSE),
           Req("POST", "/chat/completions", Some(<<"Bearer ">>), TRUE, TRUE, "base", FALSE),
           Req("POST", "/chat/completions", Some(<<"Bearer ", "k1">>), FALSE, TRUE, "base", FALSE),
           Req("POST", "/chat/completions", Some(<<"Bearer ", "k1">>), TRUE, FALSE, "core", TRUE) }

(* request.headers.get("Authorization")?.replace("Bearer ", "") *)
apiKey(rq) ==
    IF rq.authorization = None THEN None
    ELSE LET h == rq.authorization[1]
         IN  Some(IF h # <<>> /\ Head(h) = "Bearer " THEN Tail(h) ELSE h)

NoResponse == [status |-> 0, contentType |-> "", message |-> ""]

ErrorResponse(status, message) ==
    [status |-> status,
     contentType |-> IF status = 404 THEN "text/plain" ELSE "application/json",
     message |-> message]

StreamResponse == [status |-> 200, contentType |-> "text/event-stream", message |-> ""]

(* Guard without the test of body.stream of line 72 *)
GuardWithoutStreamTest(rq) ==
    IF rq.pathname # "/chat/completions" \/ rq.method # "POST"
        THEN Some(ErrorResponse(404, "Only POST /chat/completions is supported"))
    ELSE IF apiKey(rq) = None \/ apiKey(rq)[1] = <<>>
        THEN Some(ErrorResponse(401, "Authorization header with API key required"))
    ELSE IF ~rq.jsonOk
        THEN Some(ErrorResponse(400, "Invalid JSON in request body"))
    ELSE None

(* The guard clauses of fetch, in order; None when the request passes. *)
Guard(rq) ==
    IF rq.pathname # "/chat/completions" \/ rq.method # "POST"
        THEN Some(ErrorResponse(404, "Only POST /chat/completions is supported"))
    ELSE IF apiKey(rq) = None \/ apiKey(rq)[1] = <<>>
        THEN Some(ErrorResponse(401, "Authorization header with API key required"))
    ELSE IF ~rq.jsonOk
        THEN Some(ErrorResponse(400, "Invalid JSON in request body"))
    ELSE IF ~rq.stream
        THEN Some(ErrorResponse(400, "This proxy requires stream: true to be set"))
    ELSE None

(* ------------------------------- chunks -------------------------------- *)

Delta(field, value) == [field |-> field, value |-> value]

EmptyDelta == Delta("none", <<>>)

ZeroUsage == [prompt_tokens |-> 0, completion_tokens |-> 0, total_tokens |-> 0]

Chunk(id, model, delta, finish, usage) ==
    [data |-> "json", id |-> id, model |-> model, delta |-> delta,
     finish_reason |-> finish, usage |-> usage]

DoneLine ==
    [data |-> "[DONE]", id |-> <<>>, model |-> "", delta |-> EmptyDelta,
     finish_reason |-> "null", usage |-> None]

(* HeaderChunk with the delta of a content chunk *)
HeaderChunkAsContent(id, b) == Chunk(id, b.model, Delta("content", <<"assistant">>), "null", None)

HeaderChunk(id, b) == Chunk(id, b.model, Delta("role", <<"assistant">>), "null", None)

ReasoningChunk(id, b, text) == Chunk(id, b.model, Delta("reasoning_content", text), "null", None)

FinalContentChunk(id, b, text) == Chunk(id, b.model, Delta("content", text), "null", None)

finalChunk(id, b) ==
    Chunk(id, b.model, EmptyDelta, "stop", IF b.include_usage THEN Some(ZeroUsage) ELSE None)

ErrorChunk(id, b, text) == Chunk(id, b.model, Delta("content", text), "stop", None)

(* ------------------------------- events -------------------------------- *)

Event(type, message, stats, run, output, error) ==
    [type |-> type, message |-> message, source_stats |-> stats, run |-> run,
     output |-> output, error |-> error]

ProgressMsg(type, message) == Event(type, message, None, None, None, None)

ProgressStats(stats) == Event("task_run.progress_stats", None, stats, None, None, None)

SourceStats(considered, read) ==
    [num_sources_considered |-> considered, num_sources_read |-> read]

Run(status, errorMessage) ==
    [run_id |-> "trun_1", status |-> status, created_at |-> "t0", modified_at |-> "t1",
     error_message |-> errorMessage]

RunState(run, output) == Event("task_run.state", None, None, run, output, None)

Output(content) == [content |-> content, basis |-> "[]"]

ErrorEvent(message) == Event("error", None, None, None, None, message)

(* The events a subscription may deliver: each branch of the switch is taken. *)
EventInputs ==
    { ProgressMsg(t, Some(<<"H", "e", "l", "l", "o">>)) : t \in ProgressTypes }
    \cup { ProgressMsg("task_run.progress_msg.plan", m) : m \in {None, Some(<<>>), Some(<<" ">>)} }
    \cup { ProgressMsg("task_run.progress_msg.search", Some(<<"H", "e", "l", "l", "o", "!">>)) }
    \cup { ProgressStats(None), ProgressStats(Some(SourceStats(None, None))) }
    \cup { ProgressStats(Some(SourceStats(Some(n), Some(1)))) : n \in 0..MaxSources }
    \cup { RunState(None, None),
           RunState(Some(Run("running", None)), None),
           RunState(Some(Run("completed", None)), None),
           RunState(Some(Run("completed", None)), Some(Output(<<"4", "\"">>))),
           RunState(Some(Run("failed", Some(<<"b", "a", "d">>))), None),
           RunState(Some(Run("failed", None)), None),
           RunState(Some(Run("cancelled", Some(<<>>))), None) }
    \cup { ErrorEvent(Some(<<"b", "a", "d">>)), ErrorEvent(None) }
    \cup { Event("task_run.other", None, None, None, None, None) }

(* What an iteration or the subscription call may throw: error.message. *)
ThrownInputs == {None, Some(<<"f", "e", "t", "c", "h">>)}

(* ----------------------------- formatting ------------------------------ *)

RECURSIVE JsonEscape(_)
(* JSON.stringify of the characters of a string value *)
JsonEscape(text) ==
    IF text = <<>> THEN <<>>
    ELSE LET c == Head(text)
         IN  (IF c = "\"" THEN <<"\\", "\"">>
              ELSE IF c = "\\" THEN <<"\\", "\\">>
              ELSE IF c = "\n" THEN <<"\\", "n">>
              ELSE <<c>>) \o JsonEscape(Tail(text))

JsonString(text) == <<"\"">> \o JsonEscape(text) \o <<"\"">>

resultJson(e) ==
    [basis |-> e.output[1].basis, output |-> e.output[1].content,
     run_info |-> [id |-> e.run[1].run_id, status |-> e.run[1].status,
                   created_at |-> e.run[1].created_at, modified_at |-> e.run[1].modified_at]]

(* JSON.stringify(resultJson, null, 2) *)
Stringify(j) ==
    <<"{\n  \"basis\": ", j.basis, ",\n  \"output\": ">> \o JsonString(j.output)
    \o <<",\n  \"run_info\": {\n    \"id\": ", j.run_info.id, ",\n    \"status\": ",
         j.run_info.status, ",\n    \"created_at\": ", j.run_info.created_at,
         ",\n    \"modified_at\": ", j.run_info.modified_at, "\n  }\n}">>

(* stands for the three backquotes of a Markdown code fence *)
CodeFence == "<fence>"

finalContent(e) == <<CodeFence, "json\n">> \o Stringify(resultJson(e)) \o <<"\n", CodeFence>>

statsMessage(e) ==
    <<"Processing ", ToString(NumOrZero(e.source_stats[1].num_sources_considered)),
      " sources, read ", ToString(NumOrZero(e.source_stats[1].num_sources_read))>>

TaskErrorContent(e) ==
    <<"**Error**: ", "Task ", e.run[1].status, " - ">>
    \o OrElse(e.run[1].error_message, <<"Unknown error">>)

EventErrorContent(e) == <<"**Error**: ">> \o OrElse(e.error, <<"Unknown error">>)

CatchErrorContent(thrown) == <<"**Error**: ">> \o OrElse(thrown, <<"Stream processing failed">>)

(* ------------------------- the stream controller ----------------------- *)

Enqueue(item) == [op |-> "enqueue", item |-> item]

Close == [op |-> "close", item |-> DoneLine]

RECURSIVE ExecNewestFirst(_, _)
(* Exec with a chunk put in front of the ones already written *)
ExecNewestFirst(ops, c) ==
    IF ops = <<>> \/ c.threw THEN c
    ELSE LET o == Head(ops)
         IN  IF c.sink # "readable"
                 THEN IF o.op = "enqueue"
                      THEN [c EXCEPT !.threw = TRUE, !.failedWrites = @ + 1]
                      ELSE [c EXCEPT !.threw = TRUE, !.closeCalls = @ + 1]
             ELSE IF o.op = "enqueue"
                  THEN ExecNewestFirst(Tail(ops), [c EXCEPT !.written = <<o.item>> \o @])
                  ELSE ExecNewestFirst(Tail(ops), [c EXCEPT !.sink = "closed", !.closeCalls = @ + 1])

RECURSIVE Exec(_, _)
(* Runs controller calls in order on c = [sink, written, threw, closeCalls,
   failedWrites]; a call on a controller that is not readable throws and the
   rest is skipped. *)
Exec(ops, c) ==
    IF ops = <<>> \/ c.threw THEN c
    ELSE LET o == Head(ops)
         IN  IF c.sink # "readable"
                 THEN IF o.op = "enqueue"
                      THEN [c EXCEPT !.threw = TRUE, !.failedWrites = @ + 1]
                      ELSE [c EXCEPT !.threw = TRUE, !.closeCalls = @ + 1]
             ELSE IF o.op = "enqueue"
                  THEN Exec(Tail(ops), [c EXCEPT !.written = Append(@, o.item)])
                  ELSE Exec(Tail(ops), [c EXCEPT !.sink = "closed", !.closeCalls = @ + 1])

Controller(r) ==
    [sink |-> sink[r], written |-> written[r], threw |-> FALSE,
     closeCalls |-> closeCalls[r], failedWrites |-> failedWrites[r]]

(* ---------------------------- the dispatcher --------------------------- *)

(* What a case of the switch does: its controller calls, and the place where
   start returns ("" when the case breaks and the loop goes on). *)
Continue(ops) == [ops |-> ops, exit |-> ""]

Return(ops, exit) == [ops |-> ops, exit |-> exit]

ProgressMsgCase(id, b, e) ==
    IF Truthy(e.message) THEN Continue(<<Enqueue(ReasoningChunk(id, b, e.message[1]))>>)
    ELSE Continue(<<>>)

ProgressStatsCase(id, b, e) ==
    IF e.source_stats # None THEN Continue(<<Enqueue(ReasoningChunk(id, b, statsMessage(e)))>>)
    ELSE Continue(<<>>)

CompletedOps(id, b, e) ==
    <<Enqueue(FinalContentChunk(id, b, finalContent(e))), Enqueue(finalChunk(id, b)),
      Enqueue(DoneLine), Close>>

FailedOps(id, b, e) == <<Enqueue(ErrorChunk(id, b, TaskErrorContent(e))), Enqueue(DoneLine), Close>>

(* RunStateCase without the test of event.output of line 189 *)
RunStateCaseWithoutOutputTest(id, b, e) ==
    IF e.run # None /\ e.run[1].status = "completed"
        THEN Return(<<Enqueue(finalChunk(id, b)), Enqueue(DoneLine), Close>>, "exit_completed")
    ELSE IF e.run # None /\ e.run[1].status \in {"failed", "cancelled"}
        THEN Return(FailedOps(id, b, e), "exit_failed")
    ELSE Continue(<<>>)

RunStateCase(id, b, e) ==
    IF e.run # None /\ e.run[1].status = "completed" /\ e.output # None
        THEN Return(CompletedOps(id, b, e), "exit_completed")
    ELSE IF e.run # None /\ e.run[1].status \in {"failed", "cancelled"}
        THEN Return(FailedOps(id, b, e), "exit_failed")
    ELSE Continue(<<>>)

ErrorOps(id, b, e) ==
    <<Enqueue(ErrorChunk(id, b, EventErrorContent(e))), Enqueue(DoneLine), Close>>

(* ErrorCase without the return of line 310 *)
ErrorCaseWithoutReturn(id, b, e) == Continue(ErrorOps(id, b, e))

ErrorCase(id, b, e) == Return(ErrorOps(id, b, e), "exit_error")

(* Dispatch whose default case handles the event as an error event *)
DispatchDefaultAsError(id, b, e) ==
    IF e.type \in ProgressTypes THEN ProgressMsgCase(id, b, e)
    ELSE IF e.type = "task_run.progress_stats" THEN ProgressStatsCase(id, b, e)
    ELSE IF e.type = "task_run.state" THEN RunStateCase(id, b, e)
    ELSE ErrorCase(id, b, e)

(* switch (event.type) *)
Dispatch(id, b, e) ==
    IF e.type \in ProgressTypes THEN ProgressMsgCase(id, b, e)
    ELSE IF e.type = "task_run.progress_stats" THEN ProgressStatsCase(id, b, e)
    ELSE IF e.type = "task_run.state" THEN RunStateCase(id, b, e)
    ELSE IF e.type = "error" THEN ErrorCase(id, b, e)
    ELSE Continue(<<>>)

(* FallbackOps without the controller.close() of line 320 *)
FallbackOpsNoClose == <<Enqueue(DoneLine)>>

(* FallbackOps with controller.close() called twice *)
FallbackOpsCloseTwice == <<Enqueue(DoneLine), Close, Close>>

(* Fallback close when the loop is left without explicit completion. *)
FallbackOps == <<Enqueue(DoneLine), Close>>

(* Catch without the [DONE] write of line 346 *)
CatchNoDone(id, b, thrown, c) ==
    Exec(<<Enqueue(ErrorChunk(id, b, <<"**Error**: ">> \o OrElse(thrown, <<"Stream processing failed">>))),
           Close>>, [c EXCEPT !.threw = FALSE])

(* catch (error) of start: the inner try swallows a throw of its two writes,
   then controller.close() is called outside of it. *)
Catch(id, b, thrown, c) ==
    LET inner == Exec(<<Enqueue(ErrorChunk(id, b, CatchErrorContent(thrown))), Enqueue(DoneLine)>>,
                      [c EXCEPT !.threw = FALSE])
    IN  Exec(<<Close>>, [inner EXCEPT !.threw = FALSE])

(* One run of the try block of start over ops, then the catch block if a call
   threw (error is then the controller's TypeError, whose message is set).
   caught: the catch block ran; threw: controller.close() threw inside it. *)
TryCatch(id, b, ops, c) ==
    LET t == Exec(ops, c)
        f == IF t.threw THEN Catch(id, b, Some(<<"Invalid state">>), t) ELSE t
    IN  [sink |-> f.sink, written |-> f.written, threw |-> f.threw, caught |-> t.threw,
         closeCalls |-> f.closeCalls, failedWrites |-> f.failedWrites]

(* ------------------------------- actions ------------------------------- *)

(* no request has been handled *)
Idle ==
    /\ request = [r \in Requests |-> NoRequest]
    /\ pc = [r \in Requests |-> "idle"]
    /\ body = [r \in Requests |-> NoBody]
    /\ requestId = [r \in Requests |-> <<>>]
    /\ response = [r \in Requests |-> NoResponse]
    /\ sink = [r \in Requests |-> "none"]
    /\ written = [r \in Requests |-> <<>>]
    /\ consumed = [r \in Requests |-> <<>>]
    /\ closeCalls = [r \in Requests |-> 0]
    /\ failedWrites = [r \in Requests |-> 0]

Init ==
    /\ pending = SingleRequest
    /\ quota = MaxEvents
    /\ Idle

(* fetch up to its first await: the guard clauses, requestId, taskRun.create *)
Fetch(r) ==
    /\ r \in pending
    /\ pc[r] = "idle"
    /\ pending' = pending \ {r}
    /\ \E rq \in RequestInputs :
          /\ request' = [request EXCEPT ![r] = rq]
          /\ IF Guard(rq) # None
                THEN /\ response' = [response EXCEPT ![r] = Guard(rq)[1]]
                     /\ pc' = [pc EXCEPT ![r] = "responded"]
                     /\ UNCHANGED <<body, requestId>>
                ELSE /\ \E t \in Timestamps :
                           requestId' = [requestId EXCEPT ![r] = <<"chatcmpl-", t>>]
                     /\ body' = [body EXCEPT ![r] = [model |-> rq.model,
                                                     include_usage |-> rq.include_usage]]
                     /\ pc' = [pc EXCEPT ![r] = "creating"]
                     /\ UNCHANGED response
    /\ UNCHANGED <<quota, sink, written, consumed, closeCalls, failedWrites>>

(* taskRun.create throws: the outer catch answers 500 *)
CreateFail(r) ==
    /\ pc[r] = "creating"
    /\ response' = [response EXCEPT ![r] = ErrorResponse(500, "Task creation failed")]
    /\ pc' = [pc EXCEPT ![r] = "responded"]
    /\ UNCHANGED <<pending, quota, request, body, requestId, sink, written, consumed, closeCalls,
                   failedWrites>>

(* taskRun.create resolves: the stream is constructed, start runs up to its
   await of taskRun.events, and the streaming response is returned *)
CreateOk(r) ==
    /\ pc[r] = "creating"
    /\ LET c == Exec(<<Enqueue(HeaderChunk(requestId[r], body[r]))>>,
                     [sink |-> "readable", written |-> <<>>, threw |-> FALSE,
                      closeCalls |-> 0, failedWrites |-> 0])
       IN  /\ sink' = [sink EXCEPT ![r] = c.sink]
           /\ written' = [written EXCEPT ![r] = c.written]
           /\ closeCalls' = [closeCalls EXCEPT ![r] = c.closeCalls]
           /\ failedWrites' = [failedWrites EXCEPT ![r] = c.failedWrites]
    /\ response' = [response EXCEPT ![r] = StreamResponse]
    /\ pc' = [pc EXCEPT ![r] = "subscribing"]
    /\ UNCHANGED <<pending, quota, request, body, requestId, consumed>>

(* await taskRun.events resolves *)
SubscribeOk(r) ==
    /\ pc[r] = "subscribing"
    /\ pc' = [pc EXCEPT ![r] = "iterating"]
    /\ UNCHANGED <<pending, quota, request, body, requestId, response, sink, written, consumed,
                   closeCalls, failedWrites>>

(* Finish with one controller shared by all the requests *)
FinishSharedController(r, c, exit) ==
    /\ sink' = [q \in Requests |-> IF sink[q] = "none" THEN "none" ELSE c.sink]
    /\ written' = [written EXCEPT ![r] = c.written]
    /\ closeCalls' = [closeCalls EXCEPT ![r] = c.closeCalls]
    /\ failedWrites' = [failedWrites EXCEPT ![r] = c.failedWrites]
    /\ pc' = [pc EXCEPT ![r] = IF c.threw THEN "crashed"
                                ELSE IF exit = "" THEN "iterating" ELSE exit]

(* start goes on from controller state c: it rejects when close threw in the
   catch block, returns at exit, or awaits the next event when exit is "". *)
Finish(r, c, exit) ==
    /\ sink' = [sink EXCEPT ![r] = c.sink]
    /\ written' = [written EXCEPT ![r] = c.written]
    /\ closeCalls' = [closeCalls EXCEPT ![r] = c.closeCalls]
    /\ failedWrites' = [failedWrites EXCEPT ![r] = c.failedWrites]
    /\ pc' = [pc EXCEPT ![r] = IF c.threw THEN "crashed"
                                ELSE IF exit = "" THEN "iterating" ELSE exit]

(* await taskRun.events rejects: the catch block of start *)
SubscribeFail(r) ==
    /\ pc[r] = "subscribing"
    /\ \E thrown \in ThrownInputs :
          Finish(r, Catch(requestId[r], body[r], thrown, Controller(r)), "exit_catch")
    /\ UNCHANGED <<pending, quota, request, body, requestId, response, consumed>>

(* one iteration of for await: the switch on the event *)
Deliver(r) ==
    /\ pc[r] = "iterating"
    /\ quota > 0
    /\ quota' = quota - 1
    /\ \E e \in EventInputs :
          LET d == Dispatch(requestId[r], body[r], e)
              c == TryCatch(requestId[r], body[r], d.ops, Controller(r))
          IN  /\ consumed' = [consumed EXCEPT ![r] = Append(@, e)]
              /\ Finish(r, c, IF c.caught THEN "exit_catch" ELSE d.exit)
    /\ UNCHANGED <<pending, request, body, requestId, response>>

(* the subscription ends: the fallback close *)
IterEnd(r) ==
    /\ pc[r] = "iterating"
    /\ LET c == TryCatch(requestId[r], body[r], FallbackOps, Controller(r))
       IN  Finish(r, c, IF c.caught THEN "exit_catch" ELSE "exit_fallback")
    /\ UNCHANGED <<pending, quota, request, body, requestId, response, consumed>>

(* the iteration throws: the catch block of start *)
IterThrow(r) ==
    /\ pc[r] = "iterating"
    /\ \E thrown \in ThrownInputs :
          Finish(r, Catch(requestId[r], body[r], thrown, Controller(r)), "exit_catch")
    /\ UNCHANGED <<pending, quota, request, body, requestId, response, consumed>>

(* a step of the backend subscription of r *)
Subscription(r) == SubscribeOk(r) \/ SubscribeFail(r) \/ Deliver(r) \/ IterEnd(r) \/ IterThrow(r)

Next ==
    \/ \E r \in Requests : Fetch(r)
    \/ \E r \in Requests : CreateFail(r)
    \/ \E r \in Requests : CreateOk(r)
    \/ \E r \in Requests : SubscribeOk(r)
    \/ \E r \in Requests : SubscribeFail(r)
    \/ \E r \in Requests : Deliver(r)
    \/ \E r \in Requests : IterEnd(r)
    \/ \E r \in Requests : IterThrow(r)

Spec == Init /\ [][Next]_vars

(* the client cancels the stream (disconnects): the controller no longer
   accepts enqueue or close *)
ClientCancel(r) ==
    /\ sink[r] = "readable"
    /\ sink' = [sink EXCEPT ![r] = "cancelled"]
    /\ UNCHANGED <<pending, quota, request, pc, body, requestId, response, written, consumed,
                   closeCalls, failedWrites>>

NextCancel ==
    \/ \E r \in Requests : Fetch(r)
    \/ \E r \in Requests : CreateFail(r)
    \/ \E r \in Requests : CreateOk(r)
    \/ \E r \in Requests : SubscribeOk(r)
    \/ \E r \in Requests : SubscribeFail(r)
    \/ \E r \in Requests : Deliver(r)
    \/ \E r \in Requests : IterEnd(r)
    \/ \E r \in Requests : IterThrow(r)
    \/ \E r \in Requests : ClientCancel(r)

SpecCancel == Init /\ [][NextCancel]_vars

(* two requests are served concurrently *)
InitTwo ==
    /\ pending = Requests
    /\ quota = MaxEventsTwo
    /\ Idle

SpecTwo == InitTwo /\ [][Next]_vars

(* The subscription does not stay silent forever: its next outcome (an event,
   its end or its failure) eventually arrives. *)
LiveSpec == Spec /\ \A r \in Requests : WF_vars(Subscription(r))

TypeOK ==
    /\ pending \subseteq Requests
    /\ quota \in Nat
    /\ \A r \in Requests :
          /\ pc[r] \in {"idle", "responded", "creating", "subscribing", "iterating",
                        "exit_completed", "exit_failed", "exit_error", "exit_fallback",
                        "exit_catch", "crashed"}
          /\ sink[r] \in {"none", "readable", "closed", "cancelled"}
          /\ Len(consumed[r]) <= MaxEvents
          /\ closeCalls[r] \in Nat /\ failedWrites[r] \in Nat

(* ------------------------- vocabulary of the claims -------------------- *)

Last(w) == w[Len(w)]

Opened(r) == sink[r] # "none"

StreamExits == {"exit_completed", "exit_failed", "exit_error", "exit_fallback", "exit_catch"}

IsDone(x) == x.data = "[DONE]"

IsHeader(x) ==
    x.data = "json" /\ x.delta = Delta("role", <<"assistant">>) /\ x.finish_reason = "null"

IsTerminal(x) == x.data = "json" /\ x.delta = EmptyDelta /\ x.finish_reason = "stop"

IsContent(x) == x.data = "json" /\ x.delta.field = "content"

IsReasoning(x) == x.data = "json" /\ x.delta.field = "reasoning_content"

IsErrorContent(x) ==
    IsContent(x) /\ x.delta.value # <<>> /\ Head(x.delta.value) = "**Error**: "

Count(w, P(_)) == Cardinality({i \in 1..Len(w) : P(w[i])})

EndsWithDone(w) == w # <<>> /\ IsDone(Last(w))

(* ------------------------------- C1 ------------------------------------ *)

(* C1: once the output stream has been opened, the execution eventually has
   written the [DONE] line as its last write and closed the sink, whichever way
   the subscription proceeds (terminal run-state event, error event, end of the
   subscription, failure of the subscription), provided the subscription does
   not stay silent forever (LiveSpec, whose one request is SingleRequest). *)
C1_StreamTerminates ==
    \A r \in SingleRequest :
        Opened(r) ~> (sink[r] = "closed" /\ EndsWithDone(written[r]) /\ pc[r] \in StreamExits)

(* a stream closed by the fallback path after at least one non-terminal event *)
C1_Witness ==
    \E r \in Requests :
        /\ pc[r] = "exit_fallback" /\ consumed[r] # <<>>
        /\ sink[r] = "closed" /\ EndsWithDone(written[r])

(* ------------------------------- C2 ------------------------------------ *)

(* C2: on every stream that ended through completion (a run-state completed
   event, or the subscription ending with no terminal event), exactly one
   terminal chunk (empty delta, finish_reason "stop") was written, it is
   immediately followed by exactly one [DONE] line, and nothing follows that
   [DONE]. *)
C2_CompletionTerminalSequence ==
    \A r \in Requests :
        pc[r] \in {"exit_completed", "exit_fallback"} =>
            LET w == written[r]
            IN  /\ Len(w) >= 2
                /\ IsDone(w[Len(w)])
                /\ IsTerminal(w[Len(w) - 1])
                /\ Count(w, IsTerminal) = 1
                /\ Count(w, IsDone) = 1

(* ------------------------------- C3 ------------------------------------ *)

(* C3: when an explicit error event or a run-state failed/cancelled event has
   been dispatched, the error text is in a content delta that is the last
   content written, and that delta is immediately followed by a separate
   chunk with empty delta and finish_reason "stop", then [DONE], and the sink
   is closed. *)
C3_ErrorThenTerminalSequence ==
    \A r \in Requests :
        pc[r] \in {"exit_failed", "exit_error"} =>
            LET w == written[r]
            IN  /\ Len(w) >= 3
                /\ IsErrorContent(w[Len(w) - 2])
                /\ IsTerminal(w[Len(w) - 1])
                /\ IsDone(w[Len(w)])
                /\ sink[r] = "closed"

(* ------------------------------- C4 ------------------------------------ *)

(* C4: when the subscription fails (obtaining it or iterating it throws) after
   the stream was opened, exactly one bolded error content fragment is
   written, after it the stream writes [DONE] and is closed, and everything
   written before the failure stays, in its order, in front of them. *)
C4_SubscriptionFailure ==
    [][\A r \in Requests :
          (pc[r] \in {"subscribing", "iterating"} /\ pc'[r] = "exit_catch") =>
              LET w == written'[r]
                  n == Len(written[r])
              IN  /\ Len(w) = n + 2
                  /\ SubSeq(w, 1, n) = written[r]
                  /\ IsErrorContent(w[n + 1])
                  /\ Count(w, IsErrorContent) = 1
                  /\ IsDone(w[n + 2])
                  /\ Count(w, IsDone) = 1
                  /\ sink'[r] = "closed"]_vars

(* the iteration threw after a reasoning chunk had been written *)
C4_Witness ==
    \E r \in Requests :
        /\ pc[r] = "exit_catch" /\ consumed[r] # <<>>
        /\ Len(written[r]) >= 4 /\ IsReasoning(written[r][2])
        /\ IsErrorContent(written[r][Len(written[r]) - 1])

(* ------------------------------- C5 ------------------------------------ *)

(* C5: in every reachable state, each written chunk whose delta carries
   content or reasoning_content has finish_reason null, and a chunk has
   finish_reason "stop" only if its delta is empty. *)
C5_FinishReasonDiscipline ==
    \A r \in Requests :
        \A i \in 1..Len(written[r]) :
            LET x == written[r][i]
            IN  /\ (IsContent(x) \/ IsReasoning(x)) => x.finish_reason = "null"
                /\ x.finish_reason = "stop" => x.delta = EmptyDelta

(* ------------------------------- C6 ------------------------------------ *)

IsStats(e) == e.type = "task_run.progress_stats"

(* the "sources considered" counter of a stats event that carries source_stats *)
Considered(e) == NumOrZero(e.source_stats[1].num_sources_considered)

(* the counters of the stats events of a history *)
SeenConsidered(h) ==
    {Considered(h[i]) : i \in {j \in 1..Len(h) : IsStats(h[j]) /\ h[j].source_stats # None}}

(* r consumes one more event in this step *)
Consumes(r) == pc[r] = "iterating" /\ Len(consumed'[r]) = Len(consumed[r]) + 1

(* C6: a stats event whose "sources considered" counter is not strictly
   greater than the largest value already seen on the stream writes no chunk;
   only a strict increase writes a stats summary. *)
C6_StatsDeduplicated ==
    [][\A r \in Requests :
          (Consumes(r) /\ IsStats(Last(consumed'[r])) /\ written'[r] # written[r]) =>
              /\ Last(consumed'[r]).source_stats # None
              /\ \A v \in SeenConsidered(consumed[r]) : Considered(Last(consumed'[r])) > v]_vars

(* ------------------------------- C7 ------------------------------------ *)

(* C7: on every opened stream the first write is the header chunk (delta
   {role: "assistant"}, finish_reason null); it is written exactly once, it is
   the only write made before the subscription is awaited, and every content,
   reasoning, terminal or [DONE] write comes after it. *)
C7_HeaderFirstOnce ==
    \A r \in Requests :
        (Opened(r) \/ written[r] # <<>>) =>
            LET w == written[r]
            IN  /\ Len(w) >= 1
                /\ IsHeader(w[1])
                /\ \A i \in 2..Len(w) : w[i].data = "[DONE]" \/ w[i].delta.field # "role"
                /\ pc[r] = "subscribing" => Len(w) = 1

(* content has been written behind the header *)
C7_Witness ==
    \E r \in Requests :
        /\ pc[r] = "exit_completed"
        /\ IsHeader(written[r][1]) /\ IsContent(written[r][Len(written[r]) - 2])

(* ------------------------------- C8 ------------------------------------ *)

(* the fragment (delta field and text) each event kind puts on the stream *)
FragmentsOf(e) ==
    IF e.type \in ProgressTypes
        THEN IF Truthy(e.message) THEN <<<<"reasoning_content", e.message[1]>>>> ELSE <<>>
    ELSE IF IsStats(e)
        THEN IF e.source_stats # None THEN <<<<"reasoning_content", statsMessage(e)>>>> ELSE <<>>
    ELSE IF e.type = "task_run.state" /\ e.run # None
        THEN IF e.run[1].status = "completed" /\ e.output # None
                 THEN <<<<"content", finalContent(e)>>>>
             ELSE IF e.run[1].status \in {"failed", "cancelled"}
                 THEN <<<<"content", TaskErrorContent(e)>>>>
             ELSE <<>>
    ELSE IF e.type = "error" THEN <<<<"content", EventErrorContent(e)>>>>
    ELSE <<>>

RECURSIVE Enqueued(_)
(* the fragments of a history of events, in the order of the events *)
Enqueued(h) == IF h = <<>> THEN <<>> ELSE FragmentsOf(Head(h)) \o Enqueued(Tail(h))

IsDeltaChunk(x) == IsContent(x) \/ IsReasoning(x)

(* the delta chunks of a stream, as <<field, text>>, in stream order *)
Emitted(w) ==
    LET d == SelectSeq(w, IsDeltaChunk)
    IN  [i \in 1..Len(d) |-> <<d[i].delta.field, d[i].delta.value>>]

RECURSIVE ConcatContent(_)
(* the concatenation of the content texts of a sequence of <<field, text>> *)
ConcatContent(f) ==
    IF f = <<>> THEN <<>>
    ELSE (IF Head(f)[1] = "content" THEN Head(f)[2] ELSE <<>>) \o ConcatContent(Tail(f))

(* C8: the delta chunks are on the stream in the order in which their source
   fragments were produced from the backend events (followed by the fragment
   of the catch block when the subscription failed), and the concatenation of
   the emitted content deltas is the concatenation of those content texts in
   that order. *)
C8_FragmentOrder ==
    \A r \in Requests :
        \E tail \in {<<>>} \cup {<<<<"content", CatchErrorContent(t)>>>> : t \in ThrownInputs} :
            /\ (tail # <<>>) <=> (pc[r] = "exit_catch")
            /\ Emitted(written[r]) = Enqueued(consumed[r]) \o tail
            /\ ConcatContent(Emitted(written[r])) = ConcatContent(Enqueued(consumed[r]) \o tail)

(* a reasoning fragment and then the final content were written *)
C8_Witness ==
    \E r \in Requests :
        /\ Len(consumed[r]) = 2 /\ pc[r] = "exit_completed"
        /\ Len(Emitted(written[r])) = 2
        /\ Emitted(written[r])[1][1] = "reasoning_content"
        /\ Emitted(written[r])[2][1] = "content"

(* ------------------------------- C9 ------------------------------------ *)

IsControl(ch) == ch \in {"\n", "\t", "\r", "\f"}

RECURSIVE StripAndEscape(_)
StripAndEscape(text) ==
    IF text = <<>> THEN <<>>
    ELSE LET ch == Head(text)
         IN  (IF IsControl(ch) THEN <<>>
              ELSE IF ch = "\\" THEN <<"\\", "\\">>
              ELSE IF ch = "\"" THEN <<"\\", "\"">>
              ELSE <<ch>>) \o StripAndEscape(Tail(text))

RECURSIVE TrimLeft(_)
TrimLeft(text) == IF text # <<>> /\ Head(text) = " " THEN TrimLeft(Tail(text)) ELSE text

RECURSIVE TrimRight(_)
TrimRight(text) ==
    IF text # <<>> /\ Last(text) = " " THEN TrimRight(SubSeq(text, 1, Len(text) - 1)) ELSE text

(* sanitize of section 4.1 of the specification: control characters removed,
   backslash and double quote escaped, then trimmed *)
Sanitize(text) == TrimRight(TrimLeft(StripAndEscape(text)))

ParagraphSeparator == <<"\n", "\n">>

RECURSIVE ConcatValues(_)
ConcatValues(w) == IF w = <<>> THEN <<>> ELSE Head(w).delta.value \o ConcatValues(Tail(w))

(* what r wrote in this step *)
NewlyWritten(r) == SubSeq(written'[r], Len(written[r]) + 1, Len(written'[r]))

(* C9: the deltas emitted for a fragment with text t concatenate to
   sanitize(t) followed by the paragraph separator ("Hello" yields
   "Hello\n\n"). *)
C9_SanitizedWithSeparator ==
    [][\A r \in Requests :
          (/\ Consumes(r)
           /\ Last(consumed'[r]).type \in ProgressTypes
           /\ Last(consumed'[r]).message # None
           /\ Sanitize(Last(consumed'[r]).message[1]) # <<>>) =>
              ConcatValues(NewlyWritten(r))
                  = Sanitize(Last(consumed'[r]).message[1]) \o ParagraphSeparator]_vars

(* ------------------------------- C10 ----------------------------------- *)

(* C10: a progress event whose message is absent, empty, or empty after
   sanitization (whitespace only) leaves the written output unchanged. *)
C10_EmptyFragmentWritesNothing ==
    [][\A r \in Requests :
          (/\ Consumes(r)
           /\ Last(consumed'[r]).type \in ProgressTypes
           /\ \/ Last(consumed'[r]).message = None
              \/ Sanitize(Last(consumed'[r]).message[1]) = <<>>) =>
              written'[r] = written[r]]_vars

(* ------------------------------- C11 ----------------------------------- *)

(* the request of r fails one of the checks made before the run is created *)
BadRequest(r) ==
    \/ request[r].method # "POST" \/ request[r].pathname # "/chat/completions"
    \/ request[r].authorization \in {None, Some(<<>>), Some(<<"Bearer ">>)}
    \/ ~request[r].jsonOk
    \/ ~request[r].stream

(* C11: when a request fails before the stream exists (wrong method or path,
   missing API key, unparsable JSON body, stream not true, run creation
   throws), the response is a non-streaming error response, no stream is
   opened, no chunk is written and the event subscription is not started. *)
C11_PreStreamFailure ==
    \A r \in Requests :
        (pc[r] # "idle" /\ (BadRequest(r) \/ pc[r] = "responded")) =>
            /\ pc[r] = "responded"
            /\ response[r].status \in {400, 401, 404, 500}
            /\ response[r].contentType # "text/event-stream"
            /\ sink[r] = "none"
            /\ written[r] = <<>>
            /\ consumed[r] = <<>>
            /\ closeCalls[r] = 0 /\ failedWrites[r] = 0

(* a request without stream: true was answered with 400 *)
C11_Witness ==
    \E r \in Requests :
        /\ pc[r] = "responded" /\ ~request[r].stream /\ request[r].jsonOk
        /\ response[r].status = 400

(* ------------------------------- C12 ----------------------------------- *)

HasStop(x) == x.data = "json" /\ x.finish_reason = "stop"

(* C12: when the request asked for usage, every terminated stream carries on
   its finish_reason "stop" chunk a usage block whose three token counts are
   zero, whichever terminal path was taken; when usage was not asked for, no
   chunk carries a usage block. *)
C12_UsageOnStopChunk ==
    \A r \in Requests :
        pc[r] \in StreamExits =>
            LET w == written[r]
            IN  IF body[r].include_usage
                THEN /\ \E i \in 1..Len(w) : HasStop(w[i])
                     /\ \A i \in 1..Len(w) : HasStop(w[i]) => w[i].usage = Some(ZeroUsage)
                ELSE \A i \in 1..Len(w) : w[i].usage = None

(* ------------------------------- C13 ----------------------------------- *)

(* C13: the sink of a stream is closed at most once, exactly once on every
   execution that reached a terminal path (completion, error event, end or
   failure of the subscription), and close is never called on a sink that is
   already closed. *)
C13_ClosedOnce ==
    \A r \in Requests :
        /\ closeCalls[r] <= 1
        /\ (sink[r] = "closed") <=> (closeCalls[r] = 1)
        /\ (pc[r] \in StreamExits) <=> (closeCalls[r] = 1)
        /\ pc[r] # "crashed"

(* a stream closed by the catch block after an event had been consumed *)
C13_Witness ==
    \E r \in Requests :
        pc[r] = "exit_catch" /\ consumed[r] # <<>> /\ sink[r] = "closed" /\ closeCalls[r] = 1

(* ------------------------------- C14 ----------------------------------- *)

(* C14: once a write has failed or the sink is closed, no later step of the
   same stream calls enqueue on it.  Every enqueue on a sink that no longer
   accepts writes throws, so a second failed write is an enqueue called after
   a write had failed. *)
C14_NoWriteAfterFailedWrite ==
    \A r \in Requests : failedWrites[r] <= 1

(* ------------------------------- C15 ----------------------------------- *)

(* a terminal event: run-state completed with its output, run-state failed or
   cancelled, or an explicit error event *)
IsTerminalEvent(e) ==
    \/ e.type = "error"
    \/ /\ e.type = "task_run.state" /\ e.run # None
       /\ \/ e.run[1].status \in {"failed", "cancelled"}
          \/ e.run[1].status = "completed" /\ e.output # None

StreamOf(r) == <<pc[r], sink[r], written[r], consumed[r], closeCalls[r], failedWrites[r]>>

(* C15: after the dispatcher has handled a terminal event it consumes no
   further event, and nothing of the stream changes any more. *)
C15_StopsAfterTerminalEvent ==
    [][\A r \in Requests :
          (consumed[r] # <<>> /\ IsTerminalEvent(Last(consumed[r]))) =>
              StreamOf(r)' = StreamOf(r)]_vars

(* a terminal event was handled while the backend had an event left *)
C15_Witness ==
    \E r \in Requests :
        /\ consumed[r] # <<>> /\ IsTerminalEvent(Last(consumed[r]))
        /\ quota > 0 /\ pc[r] = "exit_failed"

(* ------------------------------- C16 ----------------------------------- *)

RecognizedTypes == ProgressTypes \cup {"task_run.progress_stats", "task_run.state", "error"}

(* C16: an event whose tag is none of the recognized ones writes nothing,
   leaves the stream open, and the dispatcher goes on to the next event with
   all of its state unchanged. *)
C16_UnknownEventIgnored ==
    [][\A r \in Requests :
          (Consumes(r) /\ Last(consumed'[r]).type \notin RecognizedTypes) =>
              /\ written'[r] = written[r]
              /\ sink'[r] = sink[r]
              /\ pc'[r] = "iterating"
              /\ closeCalls'[r] = closeCalls[r] /\ failedWrites'[r] = failedWrites[r]
              /\ body'[r] = body[r] /\ requestId'[r] = requestId[r]]_vars

(* an unknown event was consumed and the next event was then handled *)
C16_Witness ==
    \E r \in Requests :
        /\ Len(consumed[r]) = 2
        /\ consumed[r][1].type \notin RecognizedTypes
        /\ pc[r] = "exit_completed" /\ Len(written[r]) = 4

(* ------------------------------- C17 ----------------------------------- *)

(* C17: a fragment that is not the last one, has no newer fragment behind it
   while it is emitted and is emitted while the stream is not complete (a
   progress message, written when its event is handled) is written as chunks
   of at most 5 characters each. *)
C17_SlowChunksAtMostFive ==
    [][\A r \in Requests :
          (Consumes(r) /\ Last(consumed'[r]).type \in ProgressTypes) =>
              \A i \in 1..Len(NewlyWritten(r)) : Len(NewlyWritten(r)[i].delta.value) <= 5]_vars

(* ------------------------------- C18 ----------------------------------- *)

(* C18: when a last fragment (the final payload or an error line) arrives
   behind an earlier fragment, the stream holds the earlier fragment, then the
   last fragment whole in exactly one content chunk, then the terminal
   sequence: the chunk with empty delta and finish_reason "stop", then
   [DONE]. *)
C18_LastFragmentThenTerminal ==
    \A r \in Requests :
        (/\ Len(consumed[r]) >= 2
         /\ IsTerminalEvent(Last(consumed[r]))
         /\ FragmentsOf(consumed[r][1]) # <<>>) =>
            LET w == written[r]
                n == Len(w)
            IN  /\ n >= 5
                /\ IsDone(w[n])
                /\ IsTerminal(w[n - 1])
                /\ IsContent(w[n - 2])
                /\ <<<<"content", w[n - 2].delta.value>>>> = FragmentsOf(Last(consumed[r]))
                /\ Count(w, IsContent) = 1
                /\ Emitted(w) = Enqueued(consumed[r])

(* ------------------------------- C19 ----------------------------------- *)

(* r takes a step of its own request or stream *)
Steps(r) == pc'[r] # pc[r] \/ consumed'[r] # consumed[r]

(* what is on the stream of r is made from the request and the events of r *)
OwnStream(r) ==
    /\ \A i \in 1..Len(written[r]) :
           written[r][i].data = "json" =>
               written[r][i].id = requestId[r] /\ written[r][i].model = body[r].model
    /\ \E tail \in {<<>>} \cup {<<<<"content", CatchErrorContent(t)>>>> : t \in ThrownInputs} :
           /\ (tail # <<>>) <=> (pc[r] = "exit_catch")
           /\ Emitted(written[r]) = Enqueued(consumed[r]) \o tail

(* C19: two requests served concurrently are isolated: every chunk on a
   stream comes from that request's own subscription, and a step of one
   request (an event, a close, an error) changes neither what is written to
   the other request's stream nor whether it is open or closed. *)
C19_RequestsIsolated ==
    [][\A r \in Requests :
          /\ OwnStream(r)'
          /\ Steps(r) =>
                \A q \in Requests \ {r} :
                    /\ written'[q] = written[q]
                    /\ sink'[q] = sink[q]
                    /\ pc'[q] = pc[q]
                    /\ closeCalls'[q] = closeCalls[q] /\ failedWrites'[q] = failedWrites[q]]_vars

(* both streams are open, one has an event's chunk, the other was closed by
   the failure of its subscription *)
C19_Witness ==
    /\ pc["r1"] = "iterating" /\ Len(written["r1"]) = 2 /\ sink["r1"] = "readable"
    /\ pc["r2"] = "exit_catch" /\ sink["r2"] = "closed"

(* ------------------------------- C20 ----------------------------------- *)

(* a run-state event that is not terminal: completed without output, or a
   status other than completed, failed or cancelled (or no run at all) *)
IsNonTerminalRunState(e) == e.type = "task_run.state" /\ ~IsTerminalEvent(e)

(* C20: a run-state event that reports completed without output, or a status
   other than completed, failed or cancelled, writes nothing and the
   dispatcher keeps consuming; when the subscription then ends, the fallback
   path closes the stream with [DONE] and no finish_reason "stop" chunk
   before it. *)
C20_NonTerminalRunState ==
    [][\A r \in Requests :
          /\ (Consumes(r) /\ IsNonTerminalRunState(Last(consumed'[r]))) =>
                /\ written'[r] = written[r]
                /\ sink'[r] = sink[r]
                /\ pc'[r] = "iterating"
          /\ (pc[r] = "iterating" /\ pc'[r] = "exit_fallback") =>
                /\ written'[r] = Append(written[r], DoneLine)
                /\ Count(written'[r], HasStop) = 0
                /\ sink'[r] = "closed"]_vars

(* completed without output was consumed, then the subscription ended *)
C20_Witness ==
    \E r \in Requests :
        /\ pc[r] = "exit_fallback" /\ consumed[r] # <<>>
        /\ Last(consumed[r]).run # None
        /\ Last(consumed[r]).run[1].status = "completed"
        /\ Last(consumed[r]).output = None
        /\ written[r] = <<HeaderChunk(requestId[r], body[r]), DoneLine>>

====
